---- MODULE Spec2Model ----
(***************************************************************************)
(* Model of elf::SharedRWBuffer (src/elf/shared_rw_buffer.h): a SQLite     *)
(* table of Records, a double-buffered in-memory cache of the most recent  *)
(* rows (recent_loaded_ / curr_idx_), the reader/writer lock rw_lock_, the *)
(* refresh mutex alt_mutex_, and the Sampler handle.                       *)
(*                                                                         *)
(* Each thread runs the public operations GetSampler, the Sampler move     *)
(* constructor, Sampler::sample and ~Sampler; sample() is split at every   *)
(* lock operation and at every row callback so that interleavings of       *)
(* concurrent calls are explored.  Insert is the producer's operation.     *)
(*                                                                         *)
(* Representation.  A uint64_t is kept as its base-10 digit sequence       *)
(* (most significant first), since the values that matter (millisecond     *)
(* wall-clock readings, values above INT_MAX) do not fit TLC's integers.   *)
(* Text (a TIME or GAME_ID column, the output of to_string) is a sequence  *)
(* of character codes.  A Record keeps timestamp, game_id and content; the *)
(* fields seq, pri, reward and machine take no part in any operation       *)
(* modelled here and are left out.                                         *)
(***************************************************************************)
EXTENDS Integers, Sequences, FiniteSets, TLC

\* ---------------------------------------------------------------- bounds
NumThreads == 2      \* worker threads
MaxStore == 2        \* rows the table may hold
MaxClock == 2        \* distinct wall-clock readings
MaxMoves == 2        \* Sampler move constructions in a run

\* ------------------------------------------------------------- constants
NumBuffers == 2      \* recent_loaded_(2)
SampleWindow == 1000 \* table_read_recent(1000)
IntDigits == 10      \* decimal digits of INT_MAX

Threads == 1..NumThreads
NoThread == 0

\* INT_MAX = 2147483647 as text: the largest value stoi accepts.
IntMaxText == <<50, 49, 52, 55, 52, 56, 51, 54, 52, 55>>

VARIABLES
    store,           \* the table's rows, in insertion order
    clock,           \* index of the current wall-clock reading
    curr_idx_,       \* index of the active buffer
    recent_loaded_,  \* the two buffers
    rw_readers,      \* rw_lock_: number of shared holds
    rw_writer,       \* rw_lock_: thread holding the exclusive hold, or NoThread
    alt_mutex_,      \* thread holding alt_mutex_, or NoThread
    terminated,      \* the process has been killed (abort, SIGFPE)
    pc,              \* per thread: position in sample(), or "idle"
    n_active,        \* per thread: live Samplers that were not moved from
    n_moved_from,    \* per thread: live Samplers that were moved from
    moves,           \* number of move constructions so far
    hold_balance,    \* per thread: its Samplers' read_shared_lock calls minus
                     \* their read_shared_unlock calls
    loaded,          \* per thread: buffer index the local `loaded` points to
    q_rows,          \* per thread: result rows of the running SELECT
    q_pos,           \* per thread: rows already handed to read_callback
    q_ret,           \* per thread: return code of the last exec of the SELECT
    alt_idx,         \* per thread: the local alt_idx of cb_save_end
    result,          \* per thread: outcome of the last sample() call
    last_insert      \* outcome of the last Insert: "none", "ok" or "failed"

vars == <<store, clock, curr_idx_, recent_loaded_, rw_readers, rw_writer,
          alt_mutex_, terminated, pc, n_active, n_moved_from, moves,
          hold_balance, loaded, q_rows, q_pos, q_ret, alt_idx, result,
          last_insert>>

\* ------------------------------------------------------- uint64 and text
\* Digit sequences of the uint64 values used as inputs.
U64_0 == <<0>>
U64_7 == <<7>>
U64_9 == <<9>>
U64_10 == <<1, 0>>
U64_3e9 == <<3, 0, 0, 0, 0, 0, 0, 0, 0, 0>>

\* Wall-clock milliseconds since the epoch: 13 digits, increasing with c.
ClockValue(c) == <<1, 7, 0, 0, 0, 0, 0, 0, 0, 0, 0, 0, c>>

IsZero(u) == u = <<0>>

\* std::to_string(uint64_t): the decimal digits as characters.
to_string(u) == [i \in 1..Len(u) |-> 48 + u[i]]

\* memcmp-style comparison of two texts (SQLite's BINARY collation).
RECURSIVE TextLess(_, _)
TextLess(a, b) ==
    IF b = <<>> THEN FALSE
    ELSE IF a = <<>> THEN TRUE
    ELSE IF Head(a) # Head(b) THEN Head(a) < Head(b)
    ELSE TextLess(Tail(a), Tail(b))

\* Whether std::stoi throws std::out_of_range on a text of decimal digits.
StoiThrows(t) ==
    \/ Len(t) > IntDigits
    \/ Len(t) = IntDigits /\ TextLess(IntMaxText, t)

\* std::stoi on a text of decimal digits that is in range.
RECURSIVE StoiValue(_)
StoiValue(t) ==
    IF t = <<>> THEN 0
    ELSE StoiValue(SubSeq(t, 1, Len(t) - 1)) * 10 + (t[Len(t)] - 48)

\* Conversion of a non-negative int to uint64_t (here: to its digits).
RECURSIVE U64OfInt(_)
U64OfInt(n) ==
    IF n < 10 THEN <<n>> ELSE Append(U64OfInt(n \div 10), n % 10)

\* ---------------------------------------------------------------- records
\* Records a producer passes to Insert.
InputRecords ==
    { [timestamp |-> U64_9, game_id |-> U64_7, content |-> "a"],
      [timestamp |-> U64_10, game_id |-> U64_7, content |-> "b"],
      [timestamp |-> U64_0, game_id |-> U64_3e9, content |-> "c"] }

NoRecord == [timestamp |-> <<>>, game_id |-> <<>>, content |-> "none"]

Threw == [timestamp |-> <<>>, game_id |-> <<>>, content |-> "exception"]

\* ------------------------------------------------------------------ store
\* A row of the table: the TIME and GAME_ID columns as text, and CONTENT.
\* (GAME_ID has INT affinity; for values below 2^63, which are the only ones
\* used here, SQLite hands back the same decimal text that was inserted.)
Row(time, gid, content) == [time |-> time, game_id |-> gid, content |-> content]

\* The row that table_insert's INSERT statement describes for record r at
\* wall-clock reading c.
InsertedRow(r, c) ==
    Row(to_string(IF IsZero(r.timestamp) THEN ClockValue(c) ELSE r.timestamp),
        to_string(r.game_id), r.content)

\* TIME is the PRIMARY KEY: a second row with the same TIME text is refused.
KeyTaken(rows, time) == \E i \in 1..Len(rows) : rows[i].time = time

\* table_insert with a side effect on the cache (for comparison only).
table_insert_touching_cache(r) ==
    LET row == InsertedRow(r, clock) IN
    /\ ~terminated
    /\ KeyTaken(store, row.time) \/ Len(store) < MaxStore
    /\ IF KeyTaken(store, row.time)
       THEN /\ last_insert' = "failed"
            /\ UNCHANGED <<store, recent_loaded_>>
       ELSE /\ last_insert' = "ok"
            /\ store' = Append(store, row)
            /\ recent_loaded_' =
                 [recent_loaded_ EXCEPT ![curr_idx_] = Append(@, r)]
    /\ UNCHANGED <<clock, curr_idx_, rw_readers, rw_writer, alt_mutex_,
                   terminated, pc, n_active, n_moved_from, moves, hold_balance,
                   loaded, q_rows, q_pos, q_ret, alt_idx, result>>

\* table_insert that waits for alt_mutex_ around its statement (for
\* comparison only).
table_insert_under_alt_mutex(r) ==
    LET row == InsertedRow(r, clock) IN
    /\ ~terminated
    /\ alt_mutex_ = NoThread
    /\ KeyTaken(store, row.time) \/ Len(store) < MaxStore
    /\ IF KeyTaken(store, row.time)
       THEN /\ last_insert' = "failed"
            /\ UNCHANGED store
       ELSE /\ last_insert' = "ok"
            /\ store' = Append(store, row)
    /\ UNCHANGED <<clock, curr_idx_, recent_loaded_, rw_readers, rw_writer,
                   alt_mutex_, terminated, pc, n_active, n_moved_from, moves,
                   hold_balance, loaded, q_rows, q_pos, q_ret, alt_idx, result>>

\* bool table_insert(const Record &r): one INSERT statement; exec(sql) == 0.
table_insert(r) ==
    LET row == InsertedRow(r, clock) IN
    /\ ~terminated
    /\ KeyTaken(store, row.time) \/ Len(store) < MaxStore
    /\ IF KeyTaken(store, row.time)
       THEN /\ last_insert' = "failed"
            /\ UNCHANGED store
       ELSE /\ last_insert' = "ok"
            /\ store' = Append(store, row)
    /\ UNCHANGED <<clock, curr_idx_, recent_loaded_, rw_readers, rw_writer,
                   alt_mutex_, terminated, pc, n_active, n_moved_from, moves,
                   hold_balance, loaded, q_rows, q_pos, q_ret, alt_idx, result>>

\* bool Insert(const Record &r) { return table_insert(r); }
Insert == \E r \in InputRecords : table_insert(r)

\* The wall clock advances.
Tick ==
    /\ ~terminated
    /\ clock < MaxClock
    /\ clock' = clock + 1
    /\ UNCHANGED <<store, curr_idx_, recent_loaded_, rw_readers, rw_writer,
                   alt_mutex_, terminated, pc, n_active, n_moved_from, moves,
                   hold_balance, loaded, q_rows, q_pos, q_ret, alt_idx, result,
                   last_insert>>

\* Index in rows of the row with the greatest TIME text.
MaxTimeIndex(rows) ==
    CHOOSE i \in 1..Len(rows) :
        \A j \in 1..Len(rows) : j # i => TextLess(rows[j].time, rows[i].time)

RemoveAt(rows, i) == SubSeq(rows, 1, i - 1) \o SubSeq(rows, i + 1, Len(rows))

\* SELECT * FROM t ORDER BY TIME DESC LIMIT n
RECURSIVE SelectRecent(_, _)
SelectRecent(rows, n) ==
    IF rows = <<>> \/ n = 0 THEN <<>>
    ELSE LET i == MaxTimeIndex(rows) IN
         <<rows[i]>> \o SelectRecent(RemoveAt(rows, i), n - 1)

\* The Record read_callback builds from a row whose numbers stoi accepts.
DecodeRow(row) ==
    [timestamp |-> U64OfInt(StoiValue(row.time)),
     game_id |-> U64OfInt(StoiValue(row.game_id)),
     content |-> row.content]

\* Whether read_callback throws while decoding the row.
DecodeThrows(row) == StoiThrows(row.time) \/ StoiThrows(row.game_id)

\* ---------------------------------------------------------------- rw_lock_
\* RWLock is declared in primitive.h; its four operations follow the
\* reader/writer semantics the design states: any number of shared holds, one
\* exclusive hold, and the exclusive hold only while no shared hold exists.

\* rw_lock_.read_shared_lock(): waits while the exclusive hold is held.
read_shared_lock ==
    /\ rw_writer = NoThread
    /\ rw_readers' = rw_readers + 1
    /\ rw_writer' = rw_writer

\* rw_lock_.read_shared_unlock().  Releasing a shared hold that is not held
\* is undefined: the release is ignored, or the count of holds drops below
\* zero (and write_lock then waits until the count is back at zero).
read_shared_unlock ==
    IF rw_readers > 0
    THEN rw_readers' = rw_readers - 1 /\ rw_writer' = rw_writer
    ELSE \/ rw_readers' = rw_readers /\ rw_writer' = rw_writer
         \/ rw_readers' = rw_readers - 1 /\ rw_writer' = rw_writer

\* rw_lock_.write_lock() by thread t: waits until no hold of either kind.
write_lock(t) ==
    /\ rw_writer = NoThread
    /\ rw_readers = 0
    /\ rw_writer' = t
    /\ rw_readers' = rw_readers

\* rw_lock_.write_unlock()
write_unlock ==
    /\ rw_writer' = NoThread
    /\ rw_readers' = rw_readers

\* ---------------------------------------------------------------- Sampler
\* Sampler GetSampler(): explicit Sampler(SharedRWBuffer *) takes a shared
\* hold.  (A thread owns at most one Sampler obtained from GetSampler.)
GetSampler(t) ==
    /\ ~terminated
    /\ pc[t] = "idle"
    /\ n_active[t] = 0
    /\ read_shared_lock
    /\ n_active' = [n_active EXCEPT ![t] = 1]
    /\ hold_balance' = [hold_balance EXCEPT ![t] = @ + 1]
    /\ UNCHANGED <<store, clock, curr_idx_, recent_loaded_, alt_mutex_,
                   terminated, pc, n_moved_from, moves, loaded, q_rows, q_pos,
                   q_ret, alt_idx, result, last_insert>>

\* Sampler(Sampler &&sampler): copies data_, takes no hold, and leaves the
\* source with its data_ pointer, so the source's destructor still runs
\* read_shared_unlock.
MoveSampler(t) ==
    /\ ~terminated
    /\ pc[t] = "idle"
    /\ n_active[t] = 1
    /\ moves < MaxMoves
    /\ moves' = moves + 1
    /\ n_moved_from' = [n_moved_from EXCEPT ![t] = @ + 1]
    /\ UNCHANGED <<store, clock, curr_idx_, recent_loaded_, rw_readers,
                   rw_writer, alt_mutex_, terminated, pc, n_active,
                   hold_balance, loaded, q_rows, q_pos, q_ret, alt_idx, result,
                   last_insert>>

\* ~Sampler() of a moved-from Sampler: data_->rw_lock_.read_shared_unlock().
DestroyMovedFrom(t) ==
    /\ ~terminated
    /\ pc[t] = "idle"
    /\ n_moved_from[t] > 0
    /\ read_shared_unlock
    /\ n_moved_from' = [n_moved_from EXCEPT ![t] = @ - 1]
    /\ hold_balance' = [hold_balance EXCEPT ![t] = @ - 1]
    /\ UNCHANGED <<store, clock, curr_idx_, recent_loaded_, alt_mutex_,
                   terminated, pc, n_active, moves, loaded, q_rows, q_pos,
                   q_ret, alt_idx, result, last_insert>>

\* ~Sampler() of the Sampler that was not moved from.
DestroySampler(t) ==
    /\ ~terminated
    /\ pc[t] = "idle"
    /\ n_active[t] = 1
    /\ read_shared_unlock
    /\ n_active' = [n_active EXCEPT ![t] = 0]
    /\ hold_balance' = [hold_balance EXCEPT ![t] = @ - 1]
    /\ UNCHANGED <<store, clock, curr_idx_, recent_loaded_, alt_mutex_,
                   terminated, pc, n_moved_from, moves, loaded, q_rows, q_pos,
                   q_ret, alt_idx, result, last_insert>>

\* ------------------------------------------------------- Sampler::sample
\* int alt_idx = (curr_idx_ + 1) % recent_loaded_.size();
AltIdx == (curr_idx_ + 1) % NumBuffers

\* const vector<Record> &get_recent_load() const
get_recent_load == recent_loaded_[curr_idx_]

\* Lines 36-37: loaded = &get_recent_load(); if (loaded->empty()) ...
SampleBegin(t) ==
    /\ ~terminated
    /\ pc[t] = "idle"
    /\ n_active[t] = 1
    /\ loaded' = [loaded EXCEPT ![t] = curr_idx_]
    /\ result' = [result EXCEPT ![t] = NoRecord]
    /\ pc' = [pc EXCEPT ![t] =
                IF get_recent_load = <<>> THEN "cb_save_start" ELSE "draw"]
    /\ UNCHANGED <<store, clock, curr_idx_, recent_loaded_, rw_readers,
                   rw_writer, alt_mutex_, terminated, n_active, n_moved_from,
                   moves, hold_balance, q_rows, q_pos, q_ret, alt_idx, last_insert>>

\* cb_save_start that clears the staging buffer without taking alt_mutex_
\* (for comparison only).
cb_save_start_unlocked(t) ==
    /\ ~terminated
    /\ pc[t] = "cb_save_start"
    /\ recent_loaded_' = [recent_loaded_ EXCEPT ![AltIdx] = <<>>]
    /\ pc' = [pc EXCEPT ![t] = "exec"]
    /\ UNCHANGED <<store, clock, curr_idx_, rw_readers, rw_writer, alt_mutex_,
                   terminated, n_active, n_moved_from, moves, hold_balance,
                   loaded, q_rows, q_pos, q_ret, alt_idx, result, last_insert>>

\* cb_save_start that also takes the exclusive hold of rw_lock_, so that the
\* load runs under it (for comparison only).
cb_save_start_exclusive(t) ==
    /\ ~terminated
    /\ pc[t] = "cb_save_start"
    /\ alt_mutex_ = NoThread
    /\ alt_mutex_' = t
    /\ write_lock(t)
    /\ recent_loaded_' = [recent_loaded_ EXCEPT ![AltIdx] = <<>>]
    /\ pc' = [pc EXCEPT ![t] = "exec"]
    /\ UNCHANGED <<store, clock, curr_idx_, terminated, n_active, n_moved_from,
                   moves, hold_balance, loaded, q_rows, q_pos, q_ret, alt_idx,
                   result, last_insert>>

\* void cb_save_start(): alt_mutex_.lock(); recent_loaded_[alt_idx].clear();
cb_save_start(t) ==
    /\ ~terminated
    /\ pc[t] = "cb_save_start"
    /\ alt_mutex_ = NoThread
    /\ alt_mutex_' = t
    /\ recent_loaded_' = [recent_loaded_ EXCEPT ![AltIdx] = <<>>]
    /\ pc' = [pc EXCEPT ![t] = "exec"]
    /\ UNCHANGED <<store, clock, curr_idx_, rw_readers, rw_writer, terminated,
                   n_active, n_moved_from, moves, hold_balance, loaded, q_rows,
                   q_pos, q_ret, alt_idx, result, last_insert>>

\* cb_save_start by the thread that already holds alt_mutex_ (an earlier
\* refresh of its own was left by an exception).  Locking a std::mutex the
\* caller owns is undefined: the call never returns (no step), or it throws
\* std::system_error out of sample().
cb_save_start_relock(t) ==
    /\ ~terminated
    /\ pc[t] = "cb_save_start"
    /\ alt_mutex_ = t
    /\ pc' = [pc EXCEPT ![t] = "idle"]
    /\ result' = [result EXCEPT ![t] = Threw]
    /\ loaded' = [loaded EXCEPT ![t] = 0]
    /\ UNCHANGED <<store, clock, curr_idx_, recent_loaded_, rw_readers,
                   rw_writer, alt_mutex_, terminated, n_active, n_moved_from,
                   moves, hold_balance, q_rows, q_pos, q_ret, alt_idx,
                   last_insert>>

\* The locals of table_read_recent, exec and cb_save_end go out of scope.
EndRefresh(t) ==
    /\ q_rows' = [q_rows EXCEPT ![t] = <<>>]
    /\ q_pos' = [q_pos EXCEPT ![t] = 0]
    /\ q_ret' = [q_ret EXCEPT ![t] = 0]
    /\ alt_idx' = [alt_idx EXCEPT ![t] = 0]

\* exec(sql, read_callback): sqlite3_exec starts the SELECT of line 174.
ExecSelect(t) ==
    /\ ~terminated
    /\ pc[t] = "exec"
    /\ q_rows' = [q_rows EXCEPT ![t] = SelectRecent(store, SampleWindow)]
    /\ q_pos' = [q_pos EXCEPT ![t] = 0]
    /\ pc' = [pc EXCEPT ![t] = "rows"]
    /\ UNCHANGED <<store, clock, curr_idx_, recent_loaded_, rw_readers,
                   rw_writer, alt_mutex_, terminated, n_active, n_moved_from,
                   moves, hold_balance, loaded, q_ret, alt_idx, result, last_insert>>

\* cb_save that pushes into the active slot (for comparison only).
cb_save_into_active(r) ==
    recent_loaded_' = [recent_loaded_ EXCEPT ![curr_idx_] = Append(@, r)]

\* bool cb_save(const Record &r): recent_loaded_[alt_idx].push_back(r);
cb_save(r) == recent_loaded_' = [recent_loaded_ EXCEPT ![AltIdx] = Append(@, r)]

\* read_callback on the next row, all of whose numbers stoi accepts.
ReadCallback(t) ==
    /\ ~terminated
    /\ pc[t] = "rows"
    /\ q_pos[t] < Len(q_rows[t])
    /\ ~DecodeThrows(q_rows[t][q_pos[t] + 1])
    /\ cb_save(DecodeRow(q_rows[t][q_pos[t] + 1]))
    /\ q_pos' = [q_pos EXCEPT ![t] = @ + 1]
    /\ UNCHANGED <<store, clock, curr_idx_, rw_readers, rw_writer, alt_mutex_,
                   terminated, pc, n_active, n_moved_from, moves, hold_balance,
                   loaded, q_rows, q_ret, alt_idx, result, last_insert>>

\* read_callback on the next row when stoi throws std::out_of_range.  The
\* exception leaves a C++ callback called from sqlite3_exec, which is C:
\* either the process is terminated, or the exception unwinds out of
\* sample() (past cb_save_end, so alt_mutex_ stays locked).
ReadCallbackThrows(t) ==
    /\ ~terminated
    /\ pc[t] = "rows"
    /\ q_pos[t] < Len(q_rows[t])
    /\ DecodeThrows(q_rows[t][q_pos[t] + 1])
    /\ \/ /\ terminated' = TRUE
          /\ UNCHANGED <<pc, result, loaded, q_rows, q_pos, q_ret, alt_idx>>
       \/ /\ pc' = [pc EXCEPT ![t] = "idle"]
          /\ result' = [result EXCEPT ![t] = Threw]
          /\ loaded' = [loaded EXCEPT ![t] = 0]
          /\ EndRefresh(t)
          /\ UNCHANGED terminated
    /\ UNCHANGED <<store, clock, curr_idx_, recent_loaded_, rw_readers,
                   rw_writer, alt_mutex_, n_active, n_moved_from, moves,
                   hold_balance, last_insert>>

\* sqlite3_exec returns a non-zero code (I/O error, SQLITE_BUSY) before all
\* rows were delivered; table_read_recent goes on to cb_save_end, whose
\* first statement computes alt_idx.
ExecFails(t) ==
    /\ ~terminated
    /\ pc[t] = "rows"
    /\ q_ret' = [q_ret EXCEPT ![t] = 1]
    /\ alt_idx' = [alt_idx EXCEPT ![t] = AltIdx]
    /\ pc' = [pc EXCEPT ![t] = "cb_save_end"]
    /\ UNCHANGED <<store, clock, curr_idx_, recent_loaded_, rw_readers,
                   rw_writer, alt_mutex_, terminated, n_active, n_moved_from,
                   moves, hold_balance, loaded, q_rows, q_pos, result,
                   last_insert>>

\* sqlite3_exec returns 0 after the last row; cb_save_end computes alt_idx.
ExecReturns(t) ==
    /\ ~terminated
    /\ pc[t] = "rows"
    /\ q_pos[t] = Len(q_rows[t])
    /\ q_ret' = [q_ret EXCEPT ![t] = 0]
    /\ alt_idx' = [alt_idx EXCEPT ![t] = AltIdx]
    /\ pc' = [pc EXCEPT ![t] = "cb_save_end"]
    /\ UNCHANGED <<store, clock, curr_idx_, recent_loaded_, rw_readers,
                   rw_writer, alt_mutex_, terminated, n_active, n_moved_from,
                   moves, hold_balance, loaded, q_rows, q_pos, result,
                   last_insert>>

\* cb_save_end, rw_lock_.write_lock(): the caller waits for the exclusive
\* hold.
cb_save_end_lock(t) ==
    /\ ~terminated
    /\ pc[t] = "cb_save_end"
    /\ write_lock(t)
    /\ pc' = [pc EXCEPT ![t] = "flip"]
    /\ UNCHANGED <<store, clock, curr_idx_, recent_loaded_, alt_mutex_,
                   terminated, n_active, n_moved_from, moves, hold_balance,
                   loaded, q_rows, q_pos, q_ret, alt_idx, result, last_insert>>

\* cb_save_end, curr_idx_ = alt_idx;
cb_save_end_flip(t) ==
    /\ ~terminated
    /\ pc[t] = "flip"
    /\ curr_idx_' = alt_idx[t]
    /\ pc' = [pc EXCEPT ![t] = "write_unlock"]
    /\ UNCHANGED <<store, clock, recent_loaded_, rw_readers, rw_writer,
                   alt_mutex_, terminated, n_active, n_moved_from, moves,
                   hold_balance, loaded, q_rows, q_pos, q_ret, alt_idx, result,
                   last_insert>>

\* cb_save_end, rw_lock_.write_unlock();
cb_save_end_write_unlock(t) ==
    /\ ~terminated
    /\ pc[t] = "write_unlock"
    /\ write_unlock
    /\ pc' = [pc EXCEPT ![t] = "alt_unlock"]
    /\ UNCHANGED <<store, clock, curr_idx_, recent_loaded_, alt_mutex_,
                   terminated, n_active, n_moved_from, moves, hold_balance,
                   loaded, q_rows, q_pos, q_ret, alt_idx, result, last_insert>>

\* cb_save_end, alt_mutex_.unlock(); table_read_recent returns.
cb_save_end_alt_unlock(t) ==
    /\ ~terminated
    /\ pc[t] = "alt_unlock"
    /\ alt_mutex_' = NoThread
    /\ pc' = [pc EXCEPT ![t] = "reload"]
    /\ EndRefresh(t)
    /\ UNCHANGED <<store, clock, curr_idx_, recent_loaded_, rw_readers,
                   rw_writer, terminated, n_active, n_moved_from, moves,
                   hold_balance, loaded, result, last_insert>>

\* Line 39: loaded = &data_->get_recent_load(); the result of
\* table_read_recent is not looked at.
SampleReload(t) ==
    /\ ~terminated
    /\ pc[t] = "reload"
    /\ loaded' = [loaded EXCEPT ![t] = curr_idx_]
    /\ pc' = [pc EXCEPT ![t] = "redraw"]
    /\ UNCHANGED <<store, clock, curr_idx_, recent_loaded_, rw_readers,
                   rw_writer, alt_mutex_, terminated, n_active, n_moved_from,
                   moves, hold_balance, q_rows, q_pos, q_ret, alt_idx, result,
                   last_insert>>

\* Line 41 is reached from line 37 when the buffer was not empty ("draw")
\* and from line 39 after a refresh ("redraw").
AtDraw == {"draw", "redraw"}

\* Lines 41-42 on a non-empty buffer: idx = rng_() % loaded->size();
\* return loaded->at(idx);  (1-based index here.)
SampleDraw(t) ==
    /\ ~terminated
    /\ pc[t] \in AtDraw
    /\ recent_loaded_[loaded[t]] # <<>>
    /\ \E idx \in 1..Len(recent_loaded_[loaded[t]]) :
           result' = [result EXCEPT ![t] = recent_loaded_[loaded[t]][idx]]
    /\ pc' = [pc EXCEPT ![t] = "idle"]
    /\ loaded' = [loaded EXCEPT ![t] = 0]
    /\ UNCHANGED <<store, clock, curr_idx_, recent_loaded_, rw_readers,
                   rw_writer, alt_mutex_, terminated, n_active, n_moved_from,
                   moves, hold_balance, q_rows, q_pos, q_ret, alt_idx,
                   last_insert>>

\* Lines 41-42 on an empty buffer: rng_() % 0 is undefined.  The division
\* traps and the process is killed, or it yields some index and at() throws
\* std::out_of_range out of sample().
SampleDrawEmpty(t) ==
    /\ ~terminated
    /\ pc[t] \in AtDraw
    /\ recent_loaded_[loaded[t]] = <<>>
    /\ \/ /\ terminated' = TRUE
          /\ UNCHANGED <<pc, result, loaded>>
       \/ /\ pc' = [pc EXCEPT ![t] = "idle"]
          /\ result' = [result EXCEPT ![t] = Threw]
          /\ loaded' = [loaded EXCEPT ![t] = 0]
          /\ UNCHANGED terminated
    /\ UNCHANGED <<store, clock, curr_idx_, recent_loaded_, rw_readers,
                   rw_writer, alt_mutex_, n_active, n_moved_from, moves,
                   hold_balance, q_rows, q_pos, q_ret, alt_idx, last_insert>>

\* ------------------------------------------------------------ the program
\* The state after SharedRWBuffer's constructor on a fresh database file.
Init ==
    /\ store = <<>>
    /\ clock = 1
    /\ curr_idx_ = 0
    /\ recent_loaded_ = [i \in 0..(NumBuffers - 1) |-> <<>>]
    /\ rw_readers = 0
    /\ rw_writer = NoThread
    /\ alt_mutex_ = NoThread
    /\ terminated = FALSE
    /\ pc = [t \in Threads |-> "idle"]
    /\ n_active = [t \in Threads |-> 0]
    /\ n_moved_from = [t \in Threads |-> 0]
    /\ moves = 0
    /\ hold_balance = [t \in Threads |-> 0]
    /\ loaded = [t \in Threads |-> 0]
    /\ q_rows = [t \in Threads |-> <<>>]
    /\ q_pos = [t \in Threads |-> 0]
    /\ q_ret = [t \in Threads |-> 0]
    /\ alt_idx = [t \in Threads |-> 0]
    /\ result = [t \in Threads |-> NoRecord]
    /\ last_insert = "none"

Next ==
    \/ Insert
    \/ Tick
    \/ \E t \in Threads : GetSampler(t)
    \/ \E t \in Threads : MoveSampler(t)
    \/ \E t \in Threads : DestroyMovedFrom(t)
    \/ \E t \in Threads : DestroySampler(t)
    \/ \E t \in Threads : SampleBegin(t)
    \/ \E t \in Threads : cb_save_start(t)
    \/ \E t \in Threads : cb_save_start_relock(t)
    \/ \E t \in Threads : ExecSelect(t)
    \/ \E t \in Threads : ReadCallback(t)
    \/ \E t \in Threads : ReadCallbackThrows(t)
    \/ \E t \in Threads : ExecFails(t)
    \/ \E t \in Threads : ExecReturns(t)
    \/ \E t \in Threads : cb_save_end_lock(t)
    \/ \E t \in Threads : cb_save_end_flip(t)
    \/ \E t \in Threads : cb_save_end_write_unlock(t)
    \/ \E t \in Threads : cb_save_end_alt_unlock(t)
    \/ \E t \in Threads : SampleReload(t)
    \/ \E t \in Threads : SampleDraw(t)
    \/ \E t \in Threads : SampleDrawEmpty(t)

Spec == Init /\ [][Next]_vars

\* ------------------------------------------------------------- properties
InRefresh == {"exec", "rows", "cb_save_end", "flip", "write_unlock", "alt_unlock"}

\* C1: a thread never waits for the exclusive hold on rw_lock_ while the
\* shared hold its own Sampler took is still held (a sample() call that
\* triggers a refresh can complete without any other thread acting).
C1_NoWaitForExclusiveWhileShared ==
    \A t \in Threads : pc[t] = "cb_save_end" => hold_balance[t] <= 0

\* C2: the buffer a sample() call is about to read is never the buffer a
\* refresh of another thread is clearing or pushing into.
C2_NeverReadsStaging ==
    \A t \in Threads : pc[t] \in AtDraw =>
        ~ \E u \in Threads \ {t} :
              /\ pc[u] \in {"exec", "rows"}
              /\ alt_mutex_ = u
              /\ AltIdx = loaded[t]

\* C3: with an empty store, sample() never reaches the index computation
\* (rng_() % size, at(idx)) with an empty buffer.
C3_NoModuloZeroOnEmptyStore ==
    \A t \in Threads :
        (pc[t] \in AtDraw /\ store = <<>>) => recent_loaded_[loaded[t]] # <<>>

\* C4: a refresh whose load failed (non-zero return code of the SELECT) does
\* not flip curr_idx_: no thread has executed the flip of cb_save_end with a
\* failed load.
C4_FailedLoadDoesNotFlip ==
    \A t \in Threads : pc[t] \in {"write_unlock", "alt_unlock"} => q_ret[t] = 0

\* The Records that a refresh has pushed after n rows of its SELECT.
Decoded(rows, n) == [i \in 1..n |-> DecodeRow(rows[i])]

\* C5: alt_mutex_ is held by the refreshing thread from the clearing of the
\* staging buffer through every push and the flip, until cb_save_end unlocks
\* it; the staging buffer holds exactly the rows this refresh's own SELECT
\* has delivered so far, and at the commit exactly the rows it delivered.
C5_RefreshSerialized ==
    \A t \in Threads :
        /\ pc[t] \in InRefresh => alt_mutex_ = t
        /\ pc[t] = "exec" => recent_loaded_[AltIdx] = <<>>
        /\ pc[t] = "rows" =>
               recent_loaded_[AltIdx] = Decoded(q_rows[t], q_pos[t])
        /\ pc[t] \in {"cb_save_end", "flip"} =>
               recent_loaded_[alt_idx[t]] = Decoded(q_rows[t], q_pos[t])
        /\ pc[t] \in {"write_unlock", "alt_unlock"} =>
               recent_loaded_[curr_idx_] = Decoded(q_rows[t], q_pos[t])

\* Witness of C5: one thread has committed a successful refresh of two
\* records while another thread, which also found the active buffer empty,
\* waits for alt_mutex_.
C5_Witness ==
    \E t \in Threads, u \in Threads :
        /\ t # u
        /\ pc[t] = "write_unlock" /\ q_ret[t] = 0 /\ q_pos[t] = 2
        /\ pc[u] = "cb_save_start"

\* C6: whenever curr_idx_ is being flipped, the flipping thread holds the
\* exclusive hold, no shared hold exists, and no Sampler is Active.
C6_FlipOnlyWithoutActiveSampler ==
    \A t \in Threads : pc[t] \in {"flip", "write_unlock"} =>
        /\ rw_writer = t
        /\ rw_readers = 0
        /\ \A u \in Threads : n_active[u] = 0

RECURSIVE SumOver(_, _)
SumOver(f, S) ==
    IF S = {} THEN 0
    ELSE LET x == CHOOSE y \in S : TRUE IN f[x] + SumOver(f, S \ {x})

\* C7: the number of shared holds on rw_lock_ equals the number of Active
\* Samplers, and no thread's Samplers have released more holds than they
\* acquired.
C7_HoldsMatchActiveSamplers ==
    /\ rw_readers = SumOver(n_active, Threads)
    /\ \A t \in Threads : hold_balance[t] >= 0

\* C8: a step that appends a row to the table leaves curr_idx_ and both
\* buffers as they were.
C8_InsertLeavesCache ==
    [][store' # store =>
          (curr_idx_' = curr_idx_ /\ recent_loaded_' = recent_loaded_)]_vars

\* Witness of C8: with no refresh running, a sample() call has returned a
\* record of the active buffer while the table holds a row that the active
\* buffer does not.
C8_Witness ==
    /\ alt_mutex_ = NoThread
    /\ \A u \in Threads : pc[u] = "idle"
    /\ \E t \in Threads :
           \E k \in 1..Len(get_recent_load) : result[t] = get_recent_load[k]
    /\ \E i \in 1..Len(store) :
           \A k \in 1..Len(get_recent_load) :
               get_recent_load[k].content # store[i].content

\* Numeric order of two uint64 values given by their digits.
U64Less(a, b) ==
    \/ Len(a) < Len(b)
    \/ Len(a) = Len(b) /\ TextLess(a, b)

\* C9: after a successful refresh over a table of at most SampleWindow
\* rows, the active buffer holds one record per row of the table, newest
\* (greatest timestamp) first.
C9_ActiveIsNewestFirst ==
    \A t \in Threads :
        (pc[t] = "write_unlock" /\ q_ret[t] = 0) =>
            LET active == recent_loaded_[curr_idx_] IN
            /\ Len(active) = Len(q_rows[t])
            /\ \A i \in 1..Len(active) : \A j \in 1..Len(active) :
                   i < j => U64Less(active[j].timestamp, active[i].timestamp)

\* C10: the load of a refresh that the store does not fail ends with every
\* row of its SELECT staged and the refresh going on to its commit (so that
\* every appended record within the window becomes sampleable).
C10_RefreshStagesEveryRow ==
    [][\A t \in Threads :
          (/\ pc[t] = "rows" /\ pc'[t] # "rows"
           /\ ~(pc'[t] = "cb_save_end" /\ q_ret'[t] # 0))
          => (/\ pc'[t] = "cb_save_end"
              /\ Len(recent_loaded_'[alt_idx'[t]]) = Len(q_rows[t]))]_vars

\* C11: an Insert of a record with timestamp 0 (TIME defaulted to the
\* wall-clock millisecond) returns true and appends its row, also when an
\* earlier Insert of such a record read the same millisecond.
C11_DefaultedInsertPersists ==
    [][\A r \in InputRecords :
          (IsZero(r.timestamp) /\ table_insert(r)) =>
              (/\ last_insert' = "ok"
               /\ store' = Append(store, InsertedRow(r, clock)))]_vars

\* C12: while the process runs, every Insert call (every one the bound on
\* the table's size admits) is enabled, whatever the state of rw_lock_ and
\* alt_mutex_ and wherever the sampling threads are.
C12_InsertNeverBlocked ==
    \A r \in InputRecords :
        (/\ ~terminated
         /\ \/ KeyTaken(store, InsertedRow(r, clock).time)
            \/ Len(store) < MaxStore)
        => ENABLED table_insert(r)

\* Witness of C12: a row was appended after a refresh's SELECT had started,
\* while that refresher waits for the exclusive hold of rw_lock_ and another
\* thread waits for alt_mutex_.
C12_Witness ==
    \E t \in Threads, u \in Threads :
        /\ pc[t] = "cb_save_end" /\ alt_mutex_ = t /\ rw_readers > 0
        /\ pc[u] = "cb_save_start"
        /\ last_insert = "ok"
        /\ Len(store) > Len(q_rows[t])

\* C13: while a refresher has cleared the staging buffer and is running the
\* SELECT or pushing rows (before cb_save_end), nobody holds the exclusive
\* hold of rw_lock_, and a thread without a Sampler can take one.
C13_LoadOutsideExclusiveHold ==
    \A t \in Threads :
        pc[t] \in {"exec", "rows"} =>
            /\ rw_writer = NoThread
            /\ \A u \in Threads :
                   (~terminated /\ pc[u] = "idle" /\ n_active[u] = 0)
                   => ENABLED GetSampler(u)

\* Witness of C13: a refresher has pushed a row and has more to push, and
\* another thread is about to ask for its Sampler.
C13_Witness ==
    \E t \in Threads, u \in Threads :
        /\ pc[t] = "rows" /\ q_pos[t] >= 1 /\ q_pos[t] < Len(q_rows[t])
        /\ pc[u] = "idle" /\ n_active[u] = 0
        /\ ~terminated

\* Window sizes a caller may want the store constructed with.  The
\* constructor (lines 53-64) has no parameter for one, so none of them
\* reaches the state.
WindowChoices == {1, SampleWindow}

C15_RefreshWritesOneInactiveSlot ==
    [][\A t \in Threads :
          /\ pc[t] \in {"cb_save_start", "exec", "rows", "cb_save_end", "flip"}
             => recent_loaded_'[curr_idx_] = recent_loaded_[curr_idx_]
          /\ (pc[t] \in {"exec", "rows", "cb_save_end", "flip"}
              /\ curr_idx_' # curr_idx_)
             => /\ pc[t] = "flip" /\ pc'[t] = "write_unlock"
                /\ alt_idx[t] = AltIdx
                /\ curr_idx_' = AltIdx]_vars

\* Witness of C15: a refresher has pushed a row into the staging slot while
\* the active slot holds records.
C15_Witness ==
    \E t \in Threads :
        /\ pc[t] = "rows" /\ q_pos[t] >= 1
        /\ recent_loaded_[AltIdx] # <<>>
        /\ get_recent_load # <<>>

\* C16: a sample() call that found the active buffer non-empty at line 37
\* (and so performs no refresh) computes its index on a non-empty buffer:
\* the buffer it read still has an element at every index below its size.
C16_DrawWithoutRefreshInRange ==
    \A t \in Threads : pc[t] = "draw" => recent_loaded_[loaded[t]] # <<>>

\* Thread t is inside sample() and cannot take a step: it waits in
\* cb_save_start for alt_mutex_, which another thread holds, or in
\* cb_save_end for the exclusive hold of rw_lock_, which is not free.
Blocked(t) ==
    \/ pc[t] = "cb_save_start" /\ alt_mutex_ \notin {NoThread, t}
    \/ pc[t] = "cb_save_end" /\ ~(rw_writer = NoThread /\ rw_readers = 0)

\* C17: with every thread holding a Sampler and inside sample(), no state
\* has every thread blocked.
C17_NotAllBlocked ==
    ~ /\ ~terminated
      /\ \A t \in Threads : n_active[t] = 1 /\ Blocked(t)

\* C18: once the active buffer is non-empty, no step changes curr_idx_ or
\* the contents of the active buffer.
C18_NonEmptyActiveIsFrozen ==
    [][get_recent_load # <<>> =>
          /\ curr_idx_' = curr_idx_
          /\ recent_loaded_'[curr_idx_] = recent_loaded_[curr_idx_]]_vars

\* C19: a thread that is not inside sample() does not hold alt_mutex_:
\* every way out of a refresh has released it.
C19_AltMutexReleasedOnExit ==
    \A t \in Threads : pc[t] = "idle" => alt_mutex_ # t

\* C20: when read_callback handles a row, the record it pushes has the
\* timestamp and the game_id that table_insert wrote into the row (the row's
\* TIME and GAME_ID are to_string of the inserted values).
C20_TimestampAndGameIdRoundTrip ==
    [][\A t \in Threads :
          (ReadCallback(t) \/ ReadCallbackThrows(t)) =>
              LET row == q_rows[t][q_pos[t] + 1]
                  slot == recent_loaded_'[AltIdx]
              IN /\ Len(slot) = Len(recent_loaded_[AltIdx]) + 1
                 /\ to_string(slot[Len(slot)].timestamp) = row.time
                 /\ to_string(slot[Len(slot)].game_id) = row.game_id]_vars

====
